---- MODULE Spec2Model ----
(***************************************************************************)
(* StrongToby: core routing, data loading and navigation module.           *)
(*                                                                         *)
(* JavaScript strings are modelled as sequences of tokens.  A token is one *)
(* of the separators "#" and "/" or a word without separators ("imaging",  *)
(* "ct", "R1", ...).  The JavaScript values null and undefined are the     *)
(* one-token sequences Null and Undefined, whose tokens are not words of   *)
(* the alphabet, so they differ from every string, the empty one included. *)
(***************************************************************************)
EXTENDS Integers, Sequences, FiniteSets, TLC

VARIABLES
    phase,          \* position of init(): "boot", "loading", "running", "fatal", "crashed"
    fetchState,     \* per data file: "idle", "pending", "fulfilled", "rejected"
    AppData,        \* window.AppData: slot name -> payload or NULL (only the slots written)
    modules,        \* window[moduleName] for the renderer modules
    hash,           \* window.location.hash
    hashListeners,  \* number of hashchange listeners on window
    pendingEvents,  \* hashchange events queued and not yet dispatched
    navTree,        \* elements of #sidebarNav in document order
    navActive,      \* the --active classes set on elements: [el |-> index, class |-> class]
    navExpanded,    \* indices of elements carrying nav-item--expanded
    navClickListeners, \* click listeners attached to #sidebarNav
    navGrouped,     \* var grouped of the latest buildNavigation: what groupReports returned
    sidebarOpen,    \* _sidebarOpen
    content,        \* what #content shows
    lastRoute,      \* route parsed by the latest handleRoute (history)
    calls,          \* renderer methods invoked by the latest handleRoute (history)
    log,            \* side effects of the latest handleRoute (history)
    trail           \* history: redirects since the last user navigation, the content before
                    \* the latest handleRoute, whether the nav was synced since its last build

vars == << phase, fetchState, AppData, modules, hash, hashListeners, pendingEvents,
           navTree, navActive, navExpanded, navClickListeners, navGrouped, sidebarOpen,
           content, lastRoute, calls, log, trail >>

(***************************************************************************)
(* Bounds of the model.                                                    *)
(***************************************************************************)
MaxPending == 1     \* user navigations accepted while MaxPending events are queued
MaxRebuilds == 1    \* calls of the public App.buildNavigation after boot

(***************************************************************************)
(* JavaScript values.                                                      *)
(***************************************************************************)
Null == << "null" >>
Undefined == << "undefined" >>
NULL == [null |-> TRUE]                     \* null as an AppData payload

Truthy(s) == s # Null /\ s # Undefined /\ s # << >>
OrElse(s, d) == IF Truthy(s) THEN s ELSE d  \* s || d
At(arr, i) == IF i <= Len(arr) THEN arr[i] ELSE Undefined   \* arr[i - 1] in JavaScript

(***************************************************************************)
(* Constants of the program.                                               *)
(***************************************************************************)
DATA_FILES == << "basic-info.json", "reports-index.json", "blood-pressure.json",
                 "weight.json", "medications.json", "blood-work.json" >>

DataFileSet == { DATA_FILES[i] : i \in 1..Len(DATA_FILES) }

\* Faulty variant of DATA_KEYS: two files share a slot
DATA_KEYS_SharedSlot(file) ==
    CASE file = "basic-info.json"     -> "basicInfo"
      [] file = "reports-index.json"  -> "reportsIndex"
      [] file = "blood-pressure.json" -> "bloodPressure"
      [] file = "weight.json"         -> "bloodPressure"
      [] file = "medications.json"    -> "medications"
      [] file = "blood-work.json"     -> "bloodWork"

DATA_KEYS(file) ==
    CASE file = "basic-info.json"     -> "basicInfo"
      [] file = "reports-index.json"  -> "reportsIndex"
      [] file = "blood-pressure.json" -> "bloodPressure"
      [] file = "weight.json"         -> "weight"
      [] file = "medications.json"    -> "medications"
      [] file = "blood-work.json"     -> "bloodWork"

DEFAULT_ROUTE == << "overview" >>

NAV_SECTIONS == <<
    [key |-> <<"overview">>,    type |-> "static",       hash |-> <<"#", "overview">>,    subcategories |-> << >>],
    [key |-> <<"imaging">>,     type |-> "report-group", hash |-> << >>,
        subcategories |-> << <<"ct">>, <<"ultrasound">>, <<"xray">> >>],
    [key |-> <<"pathology">>,   type |-> "report-group", hash |-> << >>,
        subcategories |-> << <<"biopsy">>, <<"cytology">>, <<"culture">>, <<"photos">> >>],
    [key |-> <<"bloodwork">>,   type |-> "static",       hash |-> <<"#", "bloodwork">>,   subcategories |-> << >>],
    [key |-> <<"bp">>,          type |-> "static",       hash |-> <<"#", "bp">>,          subcategories |-> << >>],
    [key |-> <<"medications">>, type |-> "static",       hash |-> <<"#", "medications">>, subcategories |-> << >>],
    [key |-> <<"archive">>,     type |-> "report-group", hash |-> << >>,                  subcategories |-> << >>] >>

Modules == { "Overview", "ReportViewer", "BloodWork", "BPWeightTracker", "Medication" }

(***************************************************************************)
(* parseHash                                                               *)
(***************************************************************************)
Drop(s, n) == SubSeq(s, n + 1, Len(s))

\* Faulty variant of StripHashPrefix: strips every leading "#" (/^#+\/?/)
RECURSIVE StripHashPrefixGreedy(_)
StripHashPrefixGreedy(h) ==
    IF Len(h) >= 2 /\ h[1] = "#" /\ h[2] = "#" THEN StripHashPrefixGreedy(Drop(h, 1))
    ELSE IF Len(h) >= 1 /\ h[1] = "#"
         THEN IF Len(h) >= 2 /\ h[2] = "/" THEN Drop(h, 2) ELSE Drop(h, 1)
    ELSE h

\* hash.replace(/^#\/?/, '')
StripHashPrefix(h) ==
    IF Len(h) >= 1 /\ h[1] = "#"
    THEN IF Len(h) >= 2 /\ h[2] = "/" THEN Drop(h, 2) ELSE Drop(h, 1)
    ELSE h

\* s.split('/'): the segments between the separators, the empty ones included
RECURSIVE SplitFrom(_, _, _)
SplitFrom(s, i, cur) ==
    IF i > Len(s) THEN << cur >>
    ELSE IF s[i] = "/" THEN << cur >> \o SplitFrom(s, i + 1, << >>)
    ELSE SplitFrom(s, i + 1, Append(cur, s[i]))

Split(s) == SplitFrom(s, 1, << >>)

\* Faulty variant of parseHash: a missing segment stays undefined (no || null)
parseHashNoNull(h) ==
    LET stripped == OrElse(StripHashPrefix(h), DEFAULT_ROUTE)
        parts == Split(stripped)
    IN  [ section    |-> OrElse(At(parts, 1), DEFAULT_ROUTE),
          subsection |-> At(parts, 2),
          id         |-> At(parts, 3) ]

\* Faulty variant of parseHash: the first segment is taken as it is (no || DEFAULT_ROUTE)
parseHashNoDefaultSection(h) ==
    LET stripped == OrElse(StripHashPrefix(h), DEFAULT_ROUTE)
        parts == Split(stripped)
    IN  [ section    |-> At(parts, 1),
          subsection |-> OrElse(At(parts, 2), Null),
          id         |-> OrElse(At(parts, 3), Null) ]

parseHash(h) ==
    LET stripped == OrElse(StripHashPrefix(h), DEFAULT_ROUTE)
        parts == Split(stripped)
    IN  [ section    |-> OrElse(At(parts, 1), DEFAULT_ROUTE),
          subsection |-> OrElse(At(parts, 2), Null),
          id         |-> OrElse(At(parts, 3), Null) ]

\* navigateTo(hash): the value assigned to window.location.hash
navigateTo(h) == IF Len(h) = 0 \/ h[1] # "#" THEN << "#" >> \o h ELSE h

(***************************************************************************)
(* The data served under data/.                                            *)
(***************************************************************************)
Report(id, cat, sub, date) ==
    [id |-> << id >>, category |-> << cat >>, subcategory |-> sub, date |-> date]

\* reports-index.json: report ids are unique (the report identity contract); a date
\* is a partial ISO date, its tokens the numbers and the dashes
Reports == <<
    Report("R1", "imaging",   << "ct" >>,     << "2026", "-", "02" >>),
    Report("R2", "imaging",   << "ct" >>,     << "2026", "-", "03" >>),
    Report("R3", "pathology", << "biopsy" >>, << "2025", "-", "09" >>),
    Report("R4", "archive",   Null,           << "2024" >>),
    Report("R5", "imaging",   Null,           << "2025" >>) >>

Payload(file) ==
    [null |-> FALSE, file |-> file,
     reports |-> IF file = "reports-index.json" THEN Reports ELSE << >>]

\* What a fetch of data/<file> can come back with
Responses == { [net |-> "error", ok |-> FALSE, json |-> FALSE],
               [net |-> "up",    ok |-> FALSE, json |-> TRUE],
               [net |-> "up",    ok |-> TRUE,  json |-> FALSE],
               [net |-> "up",    ok |-> TRUE,  json |-> TRUE] }

OkResponse == [net |-> "up", ok |-> TRUE, json |-> TRUE]

\* fetchJSON(filename): the settlement of the promise it returns
fetchJSON(file, resp) ==
    IF resp.net = "error" THEN [rejected |-> TRUE, data |-> NULL]
    ELSE IF ~resp.ok THEN [rejected |-> TRUE, data |-> NULL]
    ELSE IF ~resp.json THEN [rejected |-> TRUE, data |-> NULL]
    ELSE [rejected |-> FALSE, data |-> Payload(file)]

\* obj[key] = value
SetSlot(obj, key, value) ==
    [k \in DOMAIN obj \cup {key} |-> IF k = key THEN value ELSE obj[k]]

\* obj[key], a missing key reading as null
Slot(obj, key) == IF key \in DOMAIN obj THEN obj[key] ELSE NULL

(***************************************************************************)
(* Report Grouper                                                          *)
(***************************************************************************)
\* the collation order of the tokens of a date: the dash before the digits, numbers
\* of the same width by value
DateRank(token) ==
    CASE token = "-"    -> 0
      [] token = "02"   -> 2
      [] token = "03"   -> 3
      [] token = "09"   -> 9
      [] token = "2024" -> 2024
      [] token = "2025" -> 2025
      [] token = "2026" -> 2026

\* a < b for two date strings (String.prototype.localeCompare on dates)
RECURSIVE LexLess(_, _)
LexLess(a, b) ==
    IF Len(b) = 0 THEN FALSE
    ELSE IF Len(a) = 0 THEN TRUE
    ELSE IF a[1] # b[1] THEN DateRank(a[1]) < DateRank(b[1])
    ELSE LexLess(Tail(a), Tail(b))

DateOf(r) == OrElse(r.date, << >>)          \* r.date || ''

\* list.sort(function (a, b) { return (b.date || '').localeCompare(a.date || ''); })
\* Array.prototype.sort is stable: r goes behind every element not older than it
\* Faulty variant of InsertByDate: r goes before the elements of its own date
RECURSIVE InsertByDateBeforeEqual(_, _)
InsertByDateBeforeEqual(sorted, r) ==
    IF Len(sorted) = 0 THEN << r >>
    ELSE IF ~LexLess(DateOf(r), DateOf(Head(sorted))) THEN << r >> \o sorted
    ELSE << Head(sorted) >> \o InsertByDateBeforeEqual(Tail(sorted), r)

RECURSIVE InsertByDate(_, _)
InsertByDate(sorted, r) ==
    IF Len(sorted) = 0 THEN << r >>
    ELSE IF LexLess(DateOf(Head(sorted)), DateOf(r)) THEN << r >> \o sorted
    ELSE << Head(sorted) >> \o InsertByDate(Tail(sorted), r)

RECURSIVE SortByDateDesc(_)
SortByDateDesc(list) ==
    IF Len(list) = 0 THEN << >>
    ELSE InsertByDate(SortByDateDesc(SubSeq(list, 1, Len(list) - 1)), list[Len(list)])

HasKey(entries, k) == \E i \in 1..Len(entries) : entries[i].key = k

Lookup(entries, k) ==
    IF HasKey(entries, k)
    THEN (entries[CHOOSE i \in 1..Len(entries) : entries[i].key = k]).val
    ELSE << >>

\* groups[cat][sub].push(r), creating groups[cat] and groups[cat][sub] when missing
PushReport(groups, r) ==
    LET cat == r.category
        sub == OrElse(r.subcategory, << "_default" >>)
        g1 == IF HasKey(groups, cat) THEN groups
              ELSE Append(groups, [key |-> cat, val |-> << >>])
        addSub(subs) ==
            LET s1 == IF HasKey(subs, sub) THEN subs
                      ELSE Append(subs, [key |-> sub, val |-> << >>])
            IN  [i \in 1..Len(s1) |->
                    IF s1[i].key = sub
                    THEN [s1[i] EXCEPT !.val = Append(@, r)] ELSE s1[i]]
    IN  [i \in 1..Len(g1) |->
            IF g1[i].key = cat THEN [g1[i] EXCEPT !.val = addSub(@)] ELSE g1[i]]

RECURSIVE PushAll(_, _)
PushAll(groups, reports) ==
    IF Len(reports) = 0 THEN groups
    ELSE PushAll(PushReport(groups, Head(reports)), Tail(reports))

\* Faulty variant of IndexedReports: AppData.reportsIndex.reports without the guard,
\* a TypeError when the slot is null
IndexedReportsUnguarded(ad) ==
    LET ri == Slot(ad, "reportsIndex")
    IN  IF ri.null THEN [threw |-> TRUE, value |-> << >>]
        ELSE [threw |-> FALSE, value |-> ri.reports]

\* The list groupReports iterates: (AppData.reportsIndex && AppData.reportsIndex.reports) || []
IndexedReports(ad) ==
    LET ri == Slot(ad, "reportsIndex")
    IN  IF ri.null THEN [threw |-> FALSE, value |-> << >>]
        ELSE [threw |-> FALSE, value |-> ri.reports]

\* the lists of groups, each sorted in place
SortedGroups(groups) ==
    [i \in 1..Len(groups) |->
        [groups[i] EXCEPT !.val =
            [j \in 1..Len(@) |-> [@[j] EXCEPT !.val = SortByDateDesc(@)]]]]

\* Faulty variant of groupReports: sorts AppData.reportsIndex.reports itself before
\* grouping it, which reorders the list held by the store
groupReportsSortingSource(ad) ==
    LET src == IndexedReports(ad)
        sorted == SortByDateDesc(src.value)
        groups == PushAll(<< >>, sorted)
    IN  [ threw |-> src.threw,
          value |-> SortedGroups(groups),
          store |-> IF Slot(ad, "reportsIndex").null THEN ad
                    ELSE [ad EXCEPT !["reportsIndex"].reports = sorted] ]

\* groupReports(): category -> subcategory-or-_default -> reports, newest first.
\* An object is a sequence of [key, val] entries in insertion order (Object.keys order).
\* store is window.AppData afterwards: the lists pushed to and sorted are arrays
\* created here, the array of the store is only iterated.
groupReports(ad) ==
    LET src == IndexedReports(ad)
        groups == PushAll(<< >>, src.value)
    IN  [ threw |-> src.threw,
          value |-> SortedGroups(groups),
          store |-> ad ]

(***************************************************************************)
(* Nav Tree Builder: the elements of #sidebarNav in document order.        *)
(* Each element records its tag class, its data attributes, its link and   *)
(* the index of its parent element (0: a child of the list itself).        *)
(***************************************************************************)
Joined(a, b) == a \o << "/" >> \o b

\* Faulty variant of LeafHash: the subcategory is left out of every href
LeafHashNoSubcategory(category, subcategory, report) ==
    << "#" >> \o Joined(category, report.id)

\* buildReportNavLeaf(category, subcategory, report): the href of the leaf
LeafHash(category, subcategory, report) ==
    IF category = << "archive" >> THEN << "#" >> \o Joined(<< "archive" >>, report.id)
    ELSE IF Truthy(subcategory)
         THEN << "#" >> \o Joined(Joined(category, subcategory), report.id)
    ELSE << "#" >> \o Joined(category, report.id)

buildReportNavLeaf(category, subcategory, report, parent) ==
    [ class |-> "nav-subitem", section |-> Null, sub |-> subcategory,
      reportId |-> report.id, href |-> LeafHash(category, subcategory, report),
      parent |-> parent ]

buildStaticNavItem(section) ==
    [ class |-> "nav-item", section |-> section.key, sub |-> Null,
      reportId |-> Null, href |-> section.hash, parent |-> 0 ]

RECURSIVE Leaves(_, _, _, _)
Leaves(category, subcategory, reports, parent) ==
    IF Len(reports) = 0 THEN << >>
    ELSE << buildReportNavLeaf(category, subcategory, Head(reports), parent) >>
         \o Leaves(category, subcategory, Tail(reports), parent)

RECURSIVE ConcatVals(_)
ConcatVals(entries) ==
    IF Len(entries) = 0 THEN << >>
    ELSE Head(entries).val \o ConcatVals(Tail(entries))

\* Faulty variant of Subgroups: a declared subcategory without reports is shown as an
\* empty subgroup
RECURSIVE SubgroupsKeepingEmpty(_, _, _, _, _)
SubgroupsKeepingEmpty(section, subs, catReports, group, base) ==
    IF Len(subs) = 0 THEN << >>
    ELSE LET sub == Head(subs)
             reports == Lookup(catReports, sub)
             own == << [ class |-> "nav-subgroup", section |-> Null, sub |-> sub,
                         reportId |-> Null, href |-> << >>, parent |-> group ] >>
                    \o Leaves(section.key, sub, reports, base + 1)
         IN  own \o SubgroupsKeepingEmpty(section, Tail(subs), catReports, group,
                                          base + Len(own))

\* the subgroups of a group with declared subcategories; base is the index of the
\* last element emitted before them and group the index of the group element
RECURSIVE Subgroups(_, _, _, _, _)
Subgroups(section, subs, catReports, group, base) ==
    IF Len(subs) = 0 THEN << >>
    ELSE LET sub == Head(subs)
             reports == Lookup(catReports, sub)
         IN  IF Len(reports) = 0
             THEN Subgroups(section, Tail(subs), catReports, group, base)
             ELSE LET own == << [ class |-> "nav-subgroup", section |-> Null, sub |-> sub,
                                   reportId |-> Null, href |-> << >>, parent |-> group ] >>
                             \o Leaves(section.key, sub, reports, base + 1)
                  IN  own \o Subgroups(section, Tail(subs), catReports, group, base + Len(own))

\* Faulty variant of buildReportGroupNavItem: the flat list is the lists of the
\* subcategories one after the other, not sorted again
buildReportGroupNavItemUnsorted(section, grouped, base) ==
    LET catReports == Lookup(grouped, section.key)
        isFlat == Len(section.subcategories) = 0
        li == [ class |-> "nav-item--has-children", section |-> section.key, sub |-> Null,
                reportId |-> Null, href |-> << >>, parent |-> 0 ]
    IN  << li >> \o
        ( IF isFlat
          THEN Leaves(section.key, Null, ConcatVals(catReports), base + 1)
          ELSE Subgroups(section, section.subcategories, catReports, base + 1, base + 1) )

\* buildReportGroupNavItem(section, grouped); base is the number of elements before it
buildReportGroupNavItem(section, grouped, base) ==
    LET catReports == Lookup(grouped, section.key)
        isFlat == Len(section.subcategories) = 0
        li == [ class |-> "nav-item--has-children", section |-> section.key, sub |-> Null,
                reportId |-> Null, href |-> << >>, parent |-> 0 ]
    IN  << li >> \o
        ( IF isFlat
          THEN Leaves(section.key, Null, SortByDateDesc(ConcatVals(catReports)), base + 1)
          ELSE Subgroups(section, section.subcategories, catReports, base + 1, base + 1) )

RECURSIVE BuildSections(_, _, _)
BuildSections(sections, grouped, acc) ==
    IF Len(sections) = 0 THEN acc
    ELSE LET section == Head(sections)
             html == IF section.type = "static" THEN << buildStaticNavItem(section) >>
                     ELSE buildReportGroupNavItem(section, grouped, Len(acc))
         IN  BuildSections(Tail(sections), grouped, acc \o html)

\* buildNavigation(): the new content of #sidebarNav, or an exception out of groupReports
buildNavigation(ad) ==
    LET g == groupReports(ad)
    IN  IF g.threw THEN [threw |-> TRUE, value |-> << >>, grouped |-> << >>, store |-> g.store]
        ELSE [ threw |-> FALSE, value |-> BuildSections(NAV_SECTIONS, g.value, << >>),
               grouped |-> g.value, store |-> g.store ]

(***************************************************************************)
(* Nav Syncer                                                              *)
(***************************************************************************)
\* navEl.querySelector(selector): the first of the matching elements in document
\* order, 0 (null) if there is none
First(matching) ==
    IF matching = { } THEN 0
    ELSE CHOOSE i \in matching : \A j \in matching : i <= j

ByReportId(tree, id) == First({ i \in 1..Len(tree) : tree[i].reportId = id })
BySection(tree, section) == First({ i \in 1..Len(tree) : tree[i].section = section })

\* the chain of parentElement links above element el
RECURSIVE Ancestors(_, _)
Ancestors(tree, el) ==
    IF tree[el].parent = 0 THEN { }
    ELSE { tree[el].parent } \cup Ancestors(tree, tree[el].parent)

\* Faulty variant of expandParentSections: looks at el.parentElement only and does
\* not walk further up
expandParentSectionsParentOnly(tree, el) ==
    { a \in { tree[el].parent } \ { 0 } : tree[a].class = "nav-item--has-children" }

\* expandParentSections(el): the elements that get nav-item--expanded added
expandParentSections(tree, el) ==
    { a \in Ancestors(tree, el) : tree[a].class = "nav-item--has-children" }

\* Faulty variant of ClearedActive: querySelectorAll('.nav-item--active') only
ClearedActiveItemsOnly(active) ==
    { a \in active : a.class \in { "nav-item--active" } }

\* navEl.querySelectorAll('.nav-item--active, .nav-subitem--active'): the active
\* marks highlightActiveNav removes first; a mark is [el |-> index, class |-> class]
ClearedActive(active) ==
    { a \in active : a.class \in { "nav-item--active", "nav-subitem--active" } }

\* the class added to the target element
ActiveMark(tree, el) ==
    [ el |-> el,
      class |-> IF tree[el].class = "nav-subitem" THEN "nav-subitem--active"
                ELSE "nav-item--active" ]

\* Faulty variant of NavTarget: the section lookup accepts the expandable groups too
NavTargetGroupsToo(tree, route) ==
    LET byId == IF Truthy(route.id) THEN ByReportId(tree, route.id)
                ELSE IF Truthy(route.subsection) /\ ~Truthy(route.id)
                     THEN ByReportId(tree, route.subsection)
                ELSE 0
    IN  IF byId = 0 /\ Truthy(route.section) THEN BySection(tree, route.section) ELSE byId

\* Faulty variant of NavTarget: looks the subsection up as a report id before the id
NavTargetSubsectionFirst(tree, route) ==
    LET byId == IF Truthy(route.subsection) THEN ByReportId(tree, route.subsection)
                ELSE IF Truthy(route.id) THEN ByReportId(tree, route.id)
                ELSE 0
        bySection == IF byId = 0 /\ Truthy(route.section)
                     THEN LET el == BySection(tree, route.section)
                          IN  IF el # 0 /\ tree[el].class = "nav-item--has-children"
                              THEN 0 ELSE el
                     ELSE byId
    IN  bySection

\* the element highlightActiveNav picks for the route, 0 if none
NavTarget(tree, route) ==
    LET byId == IF Truthy(route.id) THEN ByReportId(tree, route.id)
                ELSE IF Truthy(route.subsection) /\ ~Truthy(route.id)
                     THEN ByReportId(tree, route.subsection)
                ELSE 0
        bySection == IF byId = 0 /\ Truthy(route.section)
                     THEN LET el == BySection(tree, route.section)
                          IN  IF el # 0 /\ tree[el].class = "nav-item--has-children"
                              THEN 0 ELSE el
                     ELSE byId
    IN  bySection

\* Faulty variant of highlightActiveNav: also removes every nav-item--expanded first
highlightActiveNavCollapsing(tree, active, expanded, h) ==
    LET kept == active \ ClearedActive(active)
        targetEl == NavTarget(tree, parseHash(h))
    IN  IF targetEl # 0
        THEN [ active |-> kept \cup { ActiveMark(tree, targetEl) },
               expanded |-> expandParentSections(tree, targetEl) ]
        ELSE [ active |-> kept, expanded |-> { } ]

\* Faulty variant of highlightActiveNav: classList.toggle instead of classList.add on
\* the ancestors
highlightActiveNavToggling(tree, active, expanded, h) ==
    LET kept == active \ ClearedActive(active)
        targetEl == NavTarget(tree, parseHash(h))
        anc == IF targetEl # 0 THEN expandParentSections(tree, targetEl) ELSE { }
    IN  IF targetEl # 0
        THEN [ active |-> kept \cup { ActiveMark(tree, targetEl) },
               expanded |-> (expanded \ anc) \cup (anc \ expanded) ]
        ELSE [ active |-> kept, expanded |-> expanded ]

\* highlightActiveNav(): the --active and --expanded elements it leaves
highlightActiveNav(tree, active, expanded, h) ==
    LET kept == active \ ClearedActive(active)
        targetEl == NavTarget(tree, parseHash(h))
    IN  IF targetEl # 0
        THEN [ active |-> kept \cup { ActiveMark(tree, targetEl) },
               expanded |-> expanded \cup expandParentSections(tree, targetEl) ]
        ELSE [ active |-> kept, expanded |-> expanded ]

(***************************************************************************)
(* The renderer modules: what render() leaves in #content, or an exception.*)
(***************************************************************************)
View(module, arg, detail) ==
    [threw |-> FALSE,
     value |-> [kind |-> "view", module |-> module, arg |-> arg, detail |-> detail]]

InitialContent == [kind |-> "initial", module |-> "", arg |-> Null, detail |-> ""]

\* getReport(id): the index of the report in AppData.reportsIndex.reports, 0 for null
getReport(ad, id) ==
    LET ri == Slot(ad, "reportsIndex")
    IN  IF ri.null THEN 0
        ELSE IF \E i \in 1..Len(ri.reports) : ri.reports[i].id = id
             THEN CHOOSE i \in 1..Len(ri.reports) :
                     ri.reports[i].id = id /\ \A j \in 1..(i - 1) : ri.reports[j].id # id
        ELSE 0

\* Timeline's buildReportHash(reportId): the hash of the link to a report
buildReportHash(ad, reportId) ==
    LET i == getReport(ad, reportId)
        report == Slot(ad, "reportsIndex").reports[i]
    IN  IF i = 0 THEN << "#", "overview" >>
        ELSE IF report.category = << "archive" >> THEN << "#" >> \o Joined(<< "archive" >>, reportId)
        ELSE IF report.category = << "bloodwork" >> THEN << "#", "bloodwork" >>
        ELSE IF Truthy(report.subcategory)
             THEN << "#" >> \o Joined(Joined(report.category, report.subcategory), reportId)
        ELSE << "#" >> \o Joined(report.category, reportId)

OverviewRender(ad) ==
    IF Slot(ad, "basicInfo").null THEN View("Overview", Null, "no-basic-info")
    ELSE View("Overview", Null, "page")

ReportViewerRender(ad, reportId) ==
    IF getReport(ad, reportId) = 0 THEN View("ReportViewer", reportId, "not-found")
    ELSE View("ReportViewer", reportId, "report")

BloodWorkRender(ad) ==
    IF Slot(ad, "bloodWork").null THEN View("BloodWork", Null, "empty")
    ELSE View("BloodWork", Null, "table")

\* a missing slot is replaced by an empty record list
BPWeightTrackerRender(ad) ==
    LET bp == ~Slot(ad, "bloodPressure").null
        weight == ~Slot(ad, "weight").null
    IN  View("BPWeightTracker", Null,
             IF bp /\ weight THEN "bp+weight" ELSE IF bp THEN "bp"
             ELSE IF weight THEN "weight" ELSE "empty")

MedicationRender(ad) ==
    IF Slot(ad, "medications").null THEN View("Medication", Null, "empty")
    ELSE View("Medication", Null, "page")

\* store is window.AppData after the call: the renderers read the store and sort
\* copies of its lists (records.slice().sort(...)), they write the document only
Render(module, args, ad) ==
    LET r == CASE module = "Overview"        -> OverviewRender(ad)
               [] module = "ReportViewer"    -> ReportViewerRender(ad, At(args, 1))
               [] module = "BloodWork"       -> BloodWorkRender(ad)
               [] module = "BPWeightTracker" -> BPWeightTrackerRender(ad)
               [] module = "Medication"      -> MedicationRender(ad)
    IN  [threw |-> r.threw, value |-> r.value, store |-> ad]

(***************************************************************************)
(* View Registry / Dispatcher                                              *)
(***************************************************************************)
Placeholder(moduleName) ==
    [kind |-> "placeholder", module |-> moduleName, arg |-> Null, detail |-> ""]

\* Faulty variant of callRenderer: calls mod.render without looking whether it exists
callRendererUnchecked(moduleName, args, mods, ad, cont) ==
    IF mods[moduleName] = "render"
    THEN LET r == Render(moduleName, args, ad)
         IN  [ content |-> IF r.threw THEN cont ELSE r.value,
               calls |-> << [module |-> moduleName, args |-> args] >>,
               effects |-> IF r.threw THEN { "throw" } ELSE { "content" },
               store |-> r.store ]
    ELSE [ content |-> cont, calls |-> << >>, effects |-> { "throw" }, store |-> ad ]

\* callRenderer(moduleName, 'render', ...args) with #content showing cont
callRenderer(moduleName, args, mods, ad, cont) ==
    IF mods[moduleName] = "render"
    THEN LET r == Render(moduleName, args, ad)
         IN  [ content |-> IF r.threw THEN cont ELSE r.value,
               calls |-> << [module |-> moduleName, args |-> args] >>,
               effects |-> IF r.threw THEN { "throw" } ELSE { "content" },
               store |-> r.store ]
    ELSE [ content |-> Placeholder(moduleName),
           calls |-> << >>,
           effects |-> { "content", "console.warn" },
           store |-> ad ]

\* Faulty variant of ImagingCase: hands the subsection to the report renderer
ImagingCaseSubsectionAsId(subsection, id, mods, ad, cont) ==
    IF Truthy(subsection) /\ Truthy(id)
    THEN callRenderer("ReportViewer", << subsection >>, mods, ad, cont)
    ELSE callRenderer("Overview", << >>, mods, ad, cont)

\* case 'imaging' of handleRoute
ImagingCase(subsection, id, mods, ad, cont) ==
    IF Truthy(subsection) /\ Truthy(id)
    THEN callRenderer("ReportViewer", << id >>, mods, ad, cont)
    ELSE callRenderer("Overview", << >>, mods, ad, cont)

\* case 'pathology' of handleRoute
PathologyCase(subsection, id, mods, ad, cont) ==
    IF Truthy(subsection) /\ Truthy(id)
    THEN callRenderer("ReportViewer", << id >>, mods, ad, cont)
    ELSE callRenderer("Overview", << >>, mods, ad, cont)

\* Faulty variant of ArchiveCase: treats archive like imaging (subcategory, then id)
ArchiveCaseThreeSegments(subsection, id, mods, ad, cont) ==
    IF Truthy(subsection) /\ Truthy(id)
    THEN callRenderer("ReportViewer", << id >>, mods, ad, cont)
    ELSE callRenderer("Overview", << >>, mods, ad, cont)

\* case 'archive' of handleRoute: the subsection is the report id
ArchiveCase(subsection, id, mods, ad, cont) ==
    IF Truthy(subsection)
    THEN callRenderer("ReportViewer", << subsection >>, mods, ad, cont)
    ELSE callRenderer("Overview", << >>, mods, ad, cont)

\* Faulty variant of DefaultCase: renders the overview directly instead of redirecting
DefaultCaseRendersOverview(mods, ad, cont) ==
    callRenderer("Overview", << >>, mods, ad, cont)

\* default of handleRoute: navigateTo(DEFAULT_ROUTE), nothing rendered
DefaultCase(mods, ad, cont) ==
    [ content |-> cont, calls |-> << >>, effects |-> { "navigateTo" }, store |-> ad ]

\* Faulty variant of Dispatch: a static section followed by a subsection and an id shows
\* the report of that id
DispatchStaticDeepLink(route, mods, ad, cont) ==
    LET section == route.section
        subsection == route.subsection
        id == route.id
        static(module) == IF Truthy(subsection) /\ Truthy(id)
                          THEN callRenderer("ReportViewer", << id >>, mods, ad, cont)
                          ELSE callRenderer(module, << >>, mods, ad, cont)
    IN  CASE section = << "overview" >> -> static("Overview")
          [] section = << "imaging" >> -> ImagingCase(subsection, id, mods, ad, cont)
          [] section = << "pathology" >> -> PathologyCase(subsection, id, mods, ad, cont)
          [] section = << "bloodwork" >> -> static("BloodWork")
          [] section = << "bp" >> -> static("BPWeightTracker")
          [] section = << "medications" >> -> static("Medication")
          [] section = << "archive" >> -> ArchiveCase(subsection, id, mods, ad, cont)
          [] OTHER -> DefaultCase(mods, ad, cont)

\* the switch of handleRoute
Dispatch(route, mods, ad, cont) ==
    LET section == route.section
        subsection == route.subsection
        id == route.id
    IN  CASE section = << "overview" >> -> callRenderer("Overview", << >>, mods, ad, cont)
          [] section = << "imaging" >> -> ImagingCase(subsection, id, mods, ad, cont)
          [] section = << "pathology" >> -> PathologyCase(subsection, id, mods, ad, cont)
          [] section = << "bloodwork" >> -> callRenderer("BloodWork", << >>, mods, ad, cont)
          [] section = << "bp" >> -> callRenderer("BPWeightTracker", << >>, mods, ad, cont)
          [] section = << "medications" >> -> callRenderer("Medication", << >>, mods, ad, cont)
          [] section = << "archive" >> -> ArchiveCase(subsection, id, mods, ad, cont)
          [] OTHER -> DefaultCase(mods, ad, cont)

\* Faulty variant of handleRoute: dispatches first and syncs the nav afterwards, with
\* the hash a redirect has set by then
handleRouteSyncAfterDispatch(h, tree, active, expanded, mods, ad, cont) ==
    LET route == parseHash(h)
        d == Dispatch(route, mods, ad, cont)
        after == IF "navigateTo" \in d.effects THEN navigateTo(DEFAULT_ROUTE) ELSE h
        nav == highlightActiveNav(tree, active, expanded, after)
    IN  [ route |-> route, active |-> nav.active, expanded |-> nav.expanded,
          content |-> d.content, calls |-> d.calls, effects |-> d.effects,
          store |-> d.store, hash |-> after ]

\* handleRoute(): parse, sync the nav, dispatch
handleRoute(h, tree, active, expanded, mods, ad, cont) ==
    LET route == parseHash(h)
        nav == highlightActiveNav(tree, active, expanded, h)
        d == Dispatch(route, mods, ad, cont)
    IN  [ route |-> route, active |-> nav.active, expanded |-> nav.expanded,
          content |-> d.content, calls |-> d.calls, effects |-> d.effects,
          store |-> d.store,
          hash |-> IF "navigateTo" \in d.effects THEN navigateTo(DEFAULT_ROUTE) ELSE h ]

(***************************************************************************)
(* State machine                                                           *)
(***************************************************************************)
AllLoaded == [m \in Modules |-> "render"]

\* window[moduleName] at boot: every module loaded, or one of them missing, or one
\* present without a render function
RegistryChoices ==
    { AllLoaded,
      [AllLoaded EXCEPT !["ReportViewer"] = "absent"],
      [AllLoaded EXCEPT !["Overview"] = "norender"] }

H(section) == << "#", section >>
H2(section, a) == << "#", section, "/", a >>
H3(section, a, b) == << "#", section, "/", a, "/", b >>

\* the hashes the page is opened with
InitHashes == { << >>, H("bp"), H3("imaging", "ct", "R1"), H("xyz") }

\* the hashes the user navigates to: nav links, typed and stale addresses
UserHashes ==
    { H("overview"), H("bloodwork"), H("bp"), H("medications"),
      H("imaging"), H2("imaging", "ct"), H3("imaging", "ct", "R1"), H2("imaging", "R5"),
      H2("pathology", "biopsy"), H3("pathology", "biopsy", "R3"),
      H3("pathology", "biopsy", "R9"),
      H("archive"), H2("archive", "R4"), H3("archive", "R4", "x"),
      H("xyz"), H3("xyz", "ct", "R1") }

NoRoute == [section |-> Null, subsection |-> Null, id |-> Null]

Trail0 == [ redirect |-> "none", redirects |-> 0, prevKind |-> "initial", synced |-> FALSE ]

Init ==
    /\ phase = "boot"
    /\ fetchState = [f \in DataFileSet |-> "idle"]
    /\ AppData = << >>
    /\ modules \in RegistryChoices
    /\ hash \in InitHashes
    /\ hashListeners = 0
    /\ pendingEvents = 0
    /\ navTree = << >>
    /\ navActive = { }
    /\ navExpanded = { }
    /\ navClickListeners = 0
    /\ navGrouped = << >>
    /\ sidebarOpen = FALSE
    /\ content = InitialContent
    /\ lastRoute = NoRoute
    /\ calls = << >>
    /\ log = { }
    /\ trail = Trail0

(***************************************************************************)
(* Collection Loader and bootstrap                                         *)
(***************************************************************************)
\* loadAllData(): window.AppData = {}, then one fetch per file; without a fetch
\* function the first fetchJSON call throws out of loadAllData
loadAllData(fetchDefined) ==
    IF fetchDefined
    THEN [threw |-> FALSE, AppData |-> << >>, fetches |-> [f \in DataFileSet |-> "pending"]]
    ELSE [threw |-> TRUE,  AppData |-> << >>, fetches |-> [f \in DataFileSet |-> "idle"]]

\* Faulty variant of StoreSettled: the .catch handler only logs and writes no slot
StoreSettledLogOnly(ad, file, settled) ==
    IF settled.rejected THEN ad
    ELSE SetSlot(ad, DATA_KEYS(file), settled.data)

\* the slot a settled fetch of file writes: .then stores the data, .catch stores null
StoreSettled(ad, file, settled) ==
    IF settled.rejected THEN SetSlot(ad, DATA_KEYS(file), NULL)
    ELSE SetSlot(ad, DATA_KEYS(file), settled.data)

\* the promise fetchJSON(file).then(...).catch(...) given the state of the fetch
ChainState(fs) == IF fs \in { "fulfilled", "rejected" } THEN "fulfilled" ELSE "pending"

\* Faulty variant of PromiseAll: settles with the first promise (Promise.race)
PromiseRace(states) ==
    IF \E f \in DOMAIN states : states[f] = "rejected" THEN "rejected"
    ELSE IF \E f \in DOMAIN states : states[f] = "fulfilled" THEN "fulfilled"
    ELSE "pending"

\* Promise.all(promises)
PromiseAll(states) ==
    IF \E f \in DOMAIN states : states[f] = "rejected" THEN "rejected"
    ELSE IF \A f \in DOMAIN states : states[f] = "fulfilled" THEN "fulfilled"
    ELSE "pending"

LoadAllState(fetches) == PromiseAll([f \in DOMAIN fetches |-> ChainState(fetches[f])])

FatalPage(cause) == [kind |-> "fatal", module |-> "", arg |-> Null, detail |-> cause]

\* init(): the call of loadAllData; an exception thrown by it leaves init uncaught
InitApp(fetchDefined) ==
    /\ phase = "boot"
    /\ LET l == loadAllData(fetchDefined)
       IN  /\ AppData' = l.AppData
           /\ fetchState' = l.fetches
           /\ phase' = IF l.threw THEN "crashed" ELSE "loading"
    /\ UNCHANGED << modules, hash, hashListeners, pendingEvents, navTree, navActive,
                    navExpanded, navClickListeners, navGrouped, sidebarOpen, content,
                    lastRoute, calls, log, trail >>

\* one fetch settles and its .then/.catch handler of loadAllData runs
FetchSettle(file, resp) ==
    /\ fetchState[file] = "pending"
    /\ LET settled == fetchJSON(file, resp)
       IN  /\ AppData' = StoreSettled(AppData, file, settled)
           /\ fetchState' = [fetchState EXCEPT
                                ![file] = IF settled.rejected THEN "rejected" ELSE "fulfilled"]
    /\ UNCHANGED << phase, modules, hash, hashListeners, pendingEvents, navTree, navActive,
                    navExpanded, navClickListeners, navGrouped, sidebarOpen, content,
                    lastRoute, calls, log, trail >>

\* the trail after a handleRoute whose effects are eff, #content having shown cont
TrailAfter(eff, cont) ==
    [ redirect |-> IF "navigateTo" \in eff THEN "requested"
                   ELSE IF trail.redirect = "requested" THEN "served" ELSE "none",
      redirects |-> IF "navigateTo" \in eff THEN trail.redirects + 1 ELSE trail.redirects,
      prevKind |-> cont.kind,
      synced |-> TRUE ]

\* Faulty variant of HashMissing: initRouter always resolves the current hash itself
HashMissingNever(h) == FALSE

\* initRouter(): !window.location.hash || window.location.hash === '#'
HashMissing(h) == h = << >> \/ h = << "#" >>

\* init(): the aggregate promise has settled; .then(build nav, sidebar, router) or,
\* on rejection or an exception in the callback, .catch(fatal page)
InitSettled ==
    /\ phase = "loading"
    /\ LoadAllState(fetchState) # "pending"
    /\ UNCHANGED << fetchState, modules, sidebarOpen >>
    /\ \E nav \in { buildNavigation(AppData) } :
       \E r \in { handleRoute(hash, nav.value, { }, { }, modules, nav.store, content) } :
       LET routeNow == ~HashMissing(hash)
       IN  IF LoadAllState(fetchState) = "rejected"
           THEN /\ phase' = "fatal"
                /\ content' = FatalPage("load")
                /\ UNCHANGED << AppData, navGrouped, hash, hashListeners, pendingEvents, navTree,
                                navActive, navExpanded, navClickListeners, lastRoute, calls,
                                log, trail >>
           ELSE IF nav.threw
           THEN /\ phase' = "fatal"
                /\ content' = FatalPage("buildNavigation")
                /\ AppData' = nav.store
                /\ UNCHANGED << navGrouped, hash, hashListeners, pendingEvents, navTree,
                                navActive, navExpanded, navClickListeners, lastRoute, calls,
                                log, trail >>
           ELSE /\ navTree' = nav.value
                /\ navGrouped' = nav.grouped
                /\ navClickListeners' = navClickListeners + 1
                /\ hashListeners' = 1
                /\ IF routeNow
                   THEN /\ navActive' = r.active
                        /\ navExpanded' = r.expanded
                        /\ AppData' = r.store
                        /\ lastRoute' = r.route
                        /\ calls' = r.calls
                        /\ log' = r.effects
                        /\ trail' = TrailAfter(r.effects, content)
                        /\ hash' = r.hash
                        /\ pendingEvents' = IF r.hash # hash THEN pendingEvents + 1
                                            ELSE pendingEvents
                        /\ phase' = IF "throw" \in r.effects THEN "fatal" ELSE "running"
                        /\ content' = IF "throw" \in r.effects
                                      THEN FatalPage("handleRoute") ELSE r.content
                   ELSE /\ navActive' = { }
                        /\ navExpanded' = { }
                        /\ AppData' = nav.store
                        /\ hash' = << "#" >> \o DEFAULT_ROUTE
                        /\ pendingEvents' = pendingEvents + 1
                        /\ phase' = "running"
                        /\ UNCHANGED << content, lastRoute, calls, log, trail >>

(***************************************************************************)
(* Router and user events                                                  *)
(***************************************************************************)
\* the user follows a link or edits the address: the hash changes and a hashchange
\* event is queued
UserNavigate(h) ==
    /\ phase # "boot"
    /\ h # hash
    /\ pendingEvents < MaxPending
    /\ hash' = h
    /\ pendingEvents' = pendingEvents + 1
    /\ trail' = [trail EXCEPT !.redirect = "none", !.redirects = 0]
    /\ UNCHANGED << phase, fetchState, AppData, modules, hashListeners, navTree, navActive,
                    navExpanded, navClickListeners, navGrouped, sidebarOpen, content,
                    lastRoute, calls, log >>

\* the browser dispatches a queued hashchange event: handleRoute runs if it is
\* registered, and reads the hash of that moment
DispatchHashChange ==
    /\ pendingEvents > 0
    /\ UNCHANGED << phase, fetchState, modules, hashListeners, navTree,
                    navClickListeners, navGrouped, sidebarOpen >>
    /\ IF hashListeners = 0
       THEN /\ pendingEvents' = pendingEvents - 1
            /\ UNCHANGED << AppData, hash, navActive, navExpanded, content, lastRoute,
                            calls, log, trail >>
       ELSE \E r \in { handleRoute(hash, navTree, navActive, navExpanded, modules, AppData,
                                    content) } :
                /\ navActive' = r.active
                /\ navExpanded' = r.expanded
                /\ AppData' = r.store
                /\ content' = r.content
                /\ lastRoute' = r.route
                /\ calls' = r.calls
                /\ log' = r.effects
                /\ trail' = TrailAfter(r.effects, content)
                /\ hash' = r.hash
                /\ pendingEvents' = IF r.hash # hash THEN pendingEvents ELSE pendingEvents - 1

\* Faulty variant of navClick: opening a group closes the other groups (an accordion)
navClickAccordion(expanded, el, listeners) ==
    IF listeners % 2 = 1
    THEN IF el \in expanded THEN expanded \ { el } ELSE { el }
    ELSE expanded

\* the click handler of #sidebarNav on a group toggle, run once per attached listener:
\* parentLi.classList.toggle('nav-item--expanded')
navClick(expanded, el, listeners) ==
    IF listeners % 2 = 1
    THEN (expanded \ { el }) \cup ({ el } \ expanded)
    ELSE expanded

\* the user clicks the toggle link of a report group
ToggleGroup(el) ==
    /\ phase = "running"
    /\ el \in 1..Len(navTree)
    /\ navTree[el].class = "nav-item--has-children"
    /\ navExpanded' = navClick(navExpanded, el, navClickListeners)
    /\ UNCHANGED << phase, fetchState, AppData, modules, hash, hashListeners, pendingEvents,
                    navTree, navActive, navClickListeners, navGrouped, sidebarOpen, content,
                    lastRoute, calls, log, trail >>

\* toggleSidebar()
toggleSidebar(open) == ~open

\* closeSidebarMobile()
closeSidebarMobile(open) == FALSE

\* the user clicks the hamburger button
ToggleSidebar ==
    /\ phase = "running"
    /\ sidebarOpen' = toggleSidebar(sidebarOpen)
    /\ UNCHANGED << phase, fetchState, AppData, modules, hash, hashListeners, pendingEvents,
                    navTree, navActive, navExpanded, navClickListeners, navGrouped, content,
                    lastRoute, calls, log, trail >>

\* the user clicks the overlay beside the open sidebar
OverlayClick ==
    /\ phase = "running"
    /\ sidebarOpen
    /\ sidebarOpen' = closeSidebarMobile(sidebarOpen)
    /\ UNCHANGED << phase, fetchState, AppData, modules, hash, hashListeners, pendingEvents,
                    navTree, navActive, navExpanded, navClickListeners, navGrouped, content,
                    lastRoute, calls, log, trail >>

\* the user clicks the link of a static item or of a report leaf: the click handler of
\* #sidebarNav closes the sidebar, then the browser follows the href
LinkClick(el) ==
    /\ phase = "running"
    /\ el \in 1..Len(navTree)
    /\ navTree[el].class \in { "nav-item", "nav-subitem" }
    /\ sidebarOpen' = closeSidebarMobile(sidebarOpen)
    /\ IF navTree[el].href # hash
       THEN /\ pendingEvents < MaxPending
            /\ hash' = navTree[el].href
            /\ pendingEvents' = pendingEvents + 1
            /\ trail' = [trail EXCEPT !.redirect = "none", !.redirects = 0]
       ELSE UNCHANGED << hash, pendingEvents, trail >>
    /\ UNCHANGED << phase, fetchState, AppData, modules, hashListeners, navTree, navActive,
                    navExpanded, navClickListeners, navGrouped, content, lastRoute, calls, log >>

\* the user clicks the report link of a timeline event on the overview page: the click
\* handler assigns buildReportHash(reportId) to window.location.hash
TimelineLinkClick(reportId) ==
    /\ phase = "running"
    /\ content.kind = "view" /\ content.module = "Overview"
    /\ buildReportHash(AppData, reportId) # hash
    /\ pendingEvents < MaxPending
    /\ hash' = buildReportHash(AppData, reportId)
    /\ pendingEvents' = pendingEvents + 1
    /\ trail' = [trail EXCEPT !.redirect = "none", !.redirects = 0]
    /\ UNCHANGED << phase, fetchState, AppData, modules, hashListeners, navTree, navActive,
                    navExpanded, navClickListeners, navGrouped, sidebarOpen, content,
                    lastRoute, calls, log >>

\* App.buildNavigation() called again after boot
Rebuild ==
    /\ phase = "running"
    /\ navClickListeners <= MaxRebuilds
    /\ \E nav \in { buildNavigation(AppData) } :
           /\ ~nav.threw
           /\ navTree' = nav.value
           /\ navGrouped' = nav.grouped
           /\ AppData' = nav.store
    /\ navActive' = { }
    /\ navExpanded' = { }
    /\ navClickListeners' = navClickListeners + 1
    /\ trail' = [trail EXCEPT !.synced = FALSE]
    /\ UNCHANGED << phase, fetchState, modules, hash, hashListeners, pendingEvents,
                    sidebarOpen, content, lastRoute, calls, log >>

\* the hashes the user navigates to while the loader is examined: one per renderer,
\* a report of each addressing form and an unknown section
BootHashes ==
    { H("overview"), H("bloodwork"), H("bp"), H("medications"),
      H3("imaging", "ct", "R1"), H2("archive", "R4"), H("xyz") }

\* Every data source may fail or succeed on its own; navigation over BootHashes.
Next ==
    \/ \E fetchDefined \in BOOLEAN : InitApp(fetchDefined)
    \/ \E file \in DataFileSet, resp \in Responses : FetchSettle(file, resp)
    \/ InitSettled
    \/ \E h \in BootHashes : UserNavigate(h)
    \/ DispatchHashChange

Spec == Init /\ [][Next]_vars

\* Routing and navigation in full (every hash of UserHashes, group toggles, rebuilds of
\* the navigation); of the data sources only reports-index.json, which shapes the
\* navigation tree, may fail.
RouteNext ==
    \/ \E fetchDefined \in BOOLEAN : InitApp(fetchDefined)
    \/ \E file \in DataFileSet : FetchSettle(file, OkResponse)
    \/ \E resp \in Responses : FetchSettle("reports-index.json", resp)
    \/ InitSettled
    \/ \E h \in UserHashes : UserNavigate(h)
    \/ DispatchHashChange
    \/ \E el \in 1..Len(navTree) : ToggleGroup(el)
    \/ \E el \in 1..Len(navTree) : LinkClick(el)
    \/ ToggleSidebar
    \/ OverlayClick
    \/ Rebuild

RouteSpec == Init /\ [][RouteNext]_vars

(***************************************************************************)
(* The grouper and the navigation over the catalogs reports-index.json may *)
(* hold.                                                                   *)
(***************************************************************************)
MaxReports == 3     \* reports in reports-index.json

\* category, subcategory and date of a report: two categories, with and without a
\* subcategory, dated, undated and dated alike
ReportShapes ==
    { [category |-> << "imaging" >>, subcategory |-> << "ct" >>, date |-> << "2026" >>],
      [category |-> << "imaging" >>, subcategory |-> << "ct" >>, date |-> << "2025" >>],
      [category |-> << "imaging" >>, subcategory |-> << "ct" >>, date |-> Null],
      [category |-> << "imaging" >>, subcategory |-> Null,       date |-> << "2026" >>],
      [category |-> << "archive" >>, subcategory |-> Null,       date |-> << "2025" >>],
      [category |-> << "archive" >>, subcategory |-> << "ct" >>, date |-> << "2026", "-", "02" >>] }

\* the reports lists of at most MaxReports reports; ids are unique: R1, R2, ...
ReportLists ==
    UNION { { [i \in 1..n |->
                 [ id |-> << "R" \o ToString(i) >>, category |-> shapes[i].category,
                   subcategory |-> shapes[i].subcategory, date |-> shapes[i].date ]] :
              shapes \in [1..n -> ReportShapes] } : n \in 0..MaxReports }

\* the hashes typed by the user besides the links of the navigation
GroupHashes == { H("imaging"), H("archive"), H2("imaging", "ct") }

\* the elements of the tree that are report leaves
ReportLeaves(tree) == { el \in 1..Len(tree) : tree[el].class = "nav-subitem" }

\* every source has been fetched, reports-index.json with one of the catalogs, and
\* the aggregate promise is about to resolve
GroupInit ==
    /\ phase = "loading"
    /\ fetchState = [f \in DataFileSet |-> "fulfilled"]
    /\ \E reports \in ReportLists :
          AppData = [k \in { DATA_KEYS(f) : f \in DataFileSet } |->
                        LET f == CHOOSE f \in DataFileSet : DATA_KEYS(f) = k
                        IN  IF f = "reports-index.json"
                            THEN [Payload(f) EXCEPT !.reports = reports]
                            ELSE Payload(f)]
    /\ modules = AllLoaded
    /\ hash = << >>
    /\ hashListeners = 0
    /\ pendingEvents = 0
    /\ navTree = << >>
    /\ navActive = { }
    /\ navExpanded = { }
    /\ navClickListeners = 0
    /\ navGrouped = << >>
    /\ sidebarOpen = FALSE
    /\ content = InitialContent
    /\ lastRoute = NoRoute
    /\ calls = << >>
    /\ log = { }
    /\ trail = Trail0

GroupNext ==
    \/ InitSettled
    \/ \E h \in GroupHashes : UserNavigate(h)
    \/ \E el \in ReportLeaves(navTree) : LinkClick(el)
    \/ DispatchHashChange

GroupSpec == GroupInit /\ [][GroupNext]_vars

(***************************************************************************)
(* The route codec over the strings of the address.                        *)
(***************************************************************************)
MaxPathLen == 8     \* tokens in the hash the page is opened with

PathTokens == { "#", "/", "a", "b" }

\* every string of at most MaxPathLen tokens
Paths == UNION { [1..n -> PathTokens] : n \in 0..MaxPathLen }

\* the segments of the routes navigated to
RouteSegs == { << "a" >>, << "b" >>, << "#", "a" >> }

Routes ==
    { [section |-> s, subsection |-> u, id |-> i] :
        s \in RouteSegs, u \in RouteSegs \cup { Null }, i \in RouteSegs \cup { Null } }

RECURSIVE JoinSegs(_)
JoinSegs(segs) ==
    IF Len(segs) = 0 THEN << >>
    ELSE IF Len(segs) = 1 THEN Head(segs)
    ELSE Head(segs) \o << "/" >> \o JoinSegs(Tail(segs))

\* encode(route): the path of a route, the inverse of parse: the leading separator,
\* then the segments joined with "/", a null segment written as nothing and the
\* trailing null segments left out
encode(route) ==
    LET text(seg) == IF seg = Null THEN << >> ELSE seg
        segs == IF route.id # Null
                THEN << route.section, text(route.subsection), route.id >>
                ELSE IF route.subsection # Null
                     THEN << route.section, route.subsection >>
                ELSE << route.section >>
    IN  << "#" >> \o JoinSegs(segs)

NoOrigin == [origin |-> NoRoute]

\* the page with any string as its hash; nothing else has happened
ParseInit ==
    /\ phase = "boot"
    /\ fetchState = [f \in DataFileSet |-> "idle"]
    /\ AppData = << >>
    /\ modules = AllLoaded
    /\ hash \in Paths
    /\ hashListeners = 0
    /\ pendingEvents = 0
    /\ navTree = << >>
    /\ navActive = { }
    /\ navExpanded = { }
    /\ navClickListeners = 0
    /\ navGrouped = << >>
    /\ sidebarOpen = FALSE
    /\ content = InitialContent
    /\ lastRoute = NoRoute
    /\ calls = << >>
    /\ log = { }
    /\ trail = NoOrigin

\* App.parseHash()
ParseCall ==
    /\ lastRoute' = parseHash(hash)
    /\ UNCHANGED << phase, fetchState, AppData, modules, hash, hashListeners, pendingEvents,
                    navTree, navActive, navExpanded, navClickListeners, navGrouped,
                    sidebarOpen, content, calls, log, trail >>

\* App.navigateTo of the path of a route; trail.origin remembers the route
NavigateToRoute(route) ==
    /\ trail = NoOrigin
    /\ hash' = navigateTo(encode(route))
    /\ lastRoute' = NoRoute
    /\ trail' = [origin |-> route]
    /\ UNCHANGED << phase, fetchState, AppData, modules, hashListeners, pendingEvents,
                    navTree, navActive, navExpanded, navClickListeners, navGrouped,
                    sidebarOpen, content, calls, log >>

ParseNext ==
    \/ ParseCall
    \/ lastRoute # NoRoute /\ NavigateToRoute(lastRoute)
    \/ \E route \in Routes : hash = << >> /\ lastRoute = NoRoute /\ NavigateToRoute(route)

ParseSpec == ParseInit /\ [][ParseNext]_vars

(***************************************************************************)
(* The navigation built over catalogs that fill several subcategories.     *)
(***************************************************************************)
\* category, subcategory and date of a report: two declared subcategories of imaging
\* (xray is declared after ct), a subcategory NAV_SECTIONS does not declare, no
\* subcategory, a pathology and an archive report
BuildShapes ==
    { [category |-> << "imaging" >>,   subcategory |-> << "xray" >>,   date |-> << "2026" >>],
      [category |-> << "imaging" >>,   subcategory |-> << "ct" >>,     date |-> << "2025" >>],
      [category |-> << "imaging" >>,   subcategory |-> << "ct" >>,     date |-> << "2026" >>],
      [category |-> << "imaging" >>,   subcategory |-> << "mri" >>,    date |-> << "2025" >>],
      [category |-> << "imaging" >>,   subcategory |-> Null,           date |-> << "2024" >>],
      [category |-> << "pathology" >>, subcategory |-> << "biopsy" >>, date |-> << "2025" >>],
      [category |-> << "archive" >>,   subcategory |-> Null,           date |-> << "2024" >>] }

\* the reports lists of at most MaxReports reports of these shapes; ids are unique
BuildLists ==
    UNION { { [i \in 1..n |->
                 [ id |-> << "R" \o ToString(i) >>, category |-> shapes[i].category,
                   subcategory |-> shapes[i].subcategory, date |-> shapes[i].date ]] :
              shapes \in [1..n -> BuildShapes] } : n \in 0..MaxReports }

\* every source has been fetched, reports-index.json with one of the catalogs, and
\* the aggregate promise is about to resolve
BuildInit ==
    /\ phase = "loading"
    /\ fetchState = [f \in DataFileSet |-> "fulfilled"]
    /\ \E reports \in BuildLists :
          AppData = [k \in { DATA_KEYS(f) : f \in DataFileSet } |->
                        LET f == CHOOSE f \in DataFileSet : DATA_KEYS(f) = k
                        IN  IF f = "reports-index.json"
                            THEN [Payload(f) EXCEPT !.reports = reports]
                            ELSE Payload(f)]
    /\ modules = AllLoaded
    /\ hash = << >>
    /\ hashListeners = 0
    /\ pendingEvents = 0
    /\ navTree = << >>
    /\ navActive = { }
    /\ navExpanded = { }
    /\ navClickListeners = 0
    /\ navGrouped = << >>
    /\ sidebarOpen = FALSE
    /\ content = InitialContent
    /\ lastRoute = NoRoute
    /\ calls = << >>
    /\ log = { }
    /\ trail = Trail0

\* the navigation is built, then the user follows the links of the report leaves and
\* the report links of the timeline
BuildNext ==
    \/ InitSettled
    \/ \E el \in ReportLeaves(navTree) : LinkClick(el)
    \/ \E i \in 1..MaxReports : TimelineLinkClick(<< "R" \o ToString(i) >>)
    \/ DispatchHashChange

BuildSpec == BuildInit /\ [][BuildNext]_vars

(***************************************************************************)
(* The router and the nav syncer over the addresses of up to three         *)
(* segments, well formed or not.                                           *)
(***************************************************************************)
\* first segments: the static sections, two report groups, an unknown section
SyncSections == { "overview", "bloodwork", "bp", "medications", "imaging", "archive", "xyz" }

\* second and third segments: a subcategory, the ids of a leaf of imaging/ct and of a
\* leaf of archive
SyncWords == { "ct", "R1", "R4" }

\* the addresses the user navigates to
SyncHashes ==
    { H(s) : s \in SyncSections }
        \cup { H2(s, a) : s \in SyncSections, a \in SyncWords }
        \cup { H3(s, a, b) : s \in SyncSections, a \in SyncWords, b \in SyncWords }

\* every source has been fetched and the aggregate promise is about to resolve; the
\* page was opened without a route
SyncInit ==
    /\ phase = "loading"
    /\ fetchState = [f \in DataFileSet |-> "fulfilled"]
    /\ AppData = [k \in { DATA_KEYS(f) : f \in DataFileSet } |->
                     Payload(CHOOSE f \in DataFileSet : DATA_KEYS(f) = k)]
    /\ modules = AllLoaded
    /\ hash = << >>
    /\ hashListeners = 0
    /\ pendingEvents = 0
    /\ navTree = << >>
    /\ navActive = { }
    /\ navExpanded = { }
    /\ navClickListeners = 0
    /\ navGrouped = << >>
    /\ sidebarOpen = FALSE
    /\ content = InitialContent
    /\ lastRoute = NoRoute
    /\ calls = << >>
    /\ log = { }
    /\ trail = Trail0

SyncNext ==
    \/ InitSettled
    \/ \E h \in SyncHashes : UserNavigate(h)
    \/ DispatchHashChange

SyncSpec == SyncInit /\ [][SyncNext]_vars

(***************************************************************************)
(* Properties                                                              *)
(***************************************************************************)
Settled(file) == fetchState[file] \in { "fulfilled", "rejected" }
Handled == lastRoute # NoRoute            \* a handleRoute has run
RouteOf(section, subsection, id) == [section |-> section, subsection |-> subsection, id |-> id]
Call(module, args) == [module |-> module, args |-> args]

\* the calls one dispatch to module makes: one when the module is registered with a
\* render function, none otherwise
CallsTo(module, args) ==
    IF modules[module] = "render" THEN << Call(module, args) >> ELSE << >>

\* C1: for section imaging or pathology the latest handleRoute invoked
\* ReportViewer.render with route.id when subsection and id were both present, and
\* Overview.render without a parameter when the id was missing; it invoked nothing else.
C1_ReportSectionDispatch ==
    (Handled /\ lastRoute.section \in { << "imaging" >>, << "pathology" >> }) =>
        /\ (Truthy(lastRoute.subsection) /\ Truthy(lastRoute.id)) =>
                calls = CallsTo("ReportViewer", << lastRoute.id >>)
        /\ ~Truthy(lastRoute.id) => calls = CallsTo("Overview", << >>)

C1_Witness ==
    /\ lastRoute = RouteOf(<< "imaging" >>, << "ct" >>, << "R1" >>)
    /\ calls = << Call("ReportViewer", << << "R1" >> >>) >>

\* C2: for section archive the latest handleRoute invoked ReportViewer.render with the
\* subsection as report id whenever a subsection was present, whatever the third
\* segment, and Overview.render when there was no subsection.
C2_ArchiveDispatch ==
    (Handled /\ lastRoute.section = << "archive" >>) =>
        /\ Truthy(lastRoute.subsection) =>
                calls = CallsTo("ReportViewer", << lastRoute.subsection >>)
        /\ ~Truthy(lastRoute.subsection) => calls = CallsTo("Overview", << >>)

C2_Witness ==
    /\ lastRoute = RouteOf(<< "archive" >>, << "R4" >>, << "x" >>)
    /\ calls = << Call("ReportViewer", << << "R4" >> >>) >>

KnownSections ==
    { << "overview" >>, << "imaging" >>, << "pathology" >>, << "bloodwork" >>, << "bp" >>,
      << "medications" >>, << "archive" >>, Null }

\* C3: a handleRoute for an unrecognized section invokes no renderer and does not write
\* the content area; it sets the hash to #overview, which queues a hashchange event;
\* the handleRoute run for that event dispatches to Overview.render; and no more than
\* one redirect happens without a navigation of the user in between.
C3_RedirectOnce ==
    /\ lastRoute.section \notin KnownSections =>
            calls = << >> /\ "content" \notin log /\ "navigateTo" \in log
    /\ trail.redirect = "requested" =>
            /\ lastRoute.section \notin KnownSections
            /\ hash = << "#", "overview" >>
            /\ pendingEvents >= 1
    /\ trail.redirect = "served" =>
            /\ lastRoute = RouteOf(<< "overview" >>, Null, Null)
            /\ calls = CallsTo("Overview", << >>)
    /\ trail.redirects <= 1

C3_Witness ==
    /\ trail.redirect = "served"
    /\ calls = << Call("Overview", << >>) >>

\* the module the dispatch table names for a route with a recognized section
TableModule(route) ==
    CASE route.section = << "overview" >> -> "Overview"
      [] route.section \in { << "imaging" >>, << "pathology" >> } ->
            IF Truthy(route.subsection) /\ Truthy(route.id) THEN "ReportViewer" ELSE "Overview"
      [] route.section = << "bloodwork" >> -> "BloodWork"
      [] route.section = << "bp" >> -> "BPWeightTracker"
      [] route.section = << "medications" >> -> "Medication"
      [] route.section = << "archive" >> ->
            IF Truthy(route.subsection) THEN "ReportViewer" ELSE "Overview"

\* C4: when the module the dispatch table names is not on the window, or has no render
\* function, the dispatch does not throw, #content holds the placeholder for that module
\* and nothing else, a warning is logged and the router stays registered; a dispatch to a
\* registered module writes that module's view, also right after a placeholder.
C4_MissingRendererPlaceholder ==
    (Handled /\ lastRoute.section \in KnownSections) =>
        LET module == TableModule(lastRoute)
        IN  IF modules[module] # "render"
            THEN /\ content = Placeholder(module)
                 /\ "console.warn" \in log
                 /\ "throw" \notin log
                 /\ calls = << >>
                 /\ phase = "running"
                 /\ hashListeners = 1
            ELSE /\ content.kind = "view"
                 /\ content.module = module
                 /\ "console.warn" \notin log

C4_Witness ==
    /\ trail.prevKind = "placeholder"
    /\ content.kind = "view"
    /\ \E m \in Modules : modules[m] # "render"

\* the sources whose fetch failed
Failed == { f \in DataFileSet : fetchState[f] = "rejected" }

\* C5: once the aggregate promise of loadAllData has resolved, AppData has all six keys,
\* holds null in exactly the slots of the sources whose fetch failed and the parsed
\* payload in every other slot.
C5_NullExactlyWhereFailed ==
    phase \in { "running", "fatal" } =>
        /\ DOMAIN AppData = { "basicInfo", "reportsIndex", "bloodPressure", "weight",
                              "medications", "bloodWork" }
        /\ \A f \in DataFileSet :
              /\ f \in Failed => AppData[DATA_KEYS(f)] = NULL
              /\ f \notin Failed => AppData[DATA_KEYS(f)] = Payload(f)

C5_Witness ==
    /\ phase = "running"
    /\ Failed = { "weight.json", "reports-index.json" }

\* C6: the aggregate promise resolves only after all six fetches have settled, a failed
\* fetch never makes it reject, and at every moment AppData is determined by which
\* fetches have settled and how, whatever the order they settled in: every settled fetch
\* has written its own slot and no other.
C6_JoinAndDistinctSlots ==
    /\ phase \in { "running", "fatal" } => \A f \in DataFileSet : Settled(f)
    /\ content # FatalPage("load")
    /\ Cardinality(DOMAIN AppData) = Cardinality({ f \in DataFileSet : Settled(f) })
    /\ \A f \in DataFileSet :
          Settled(f) =>
              /\ DATA_KEYS(f) \in DOMAIN AppData
              /\ AppData[DATA_KEYS(f)] = IF f \in Failed THEN NULL ELSE Payload(f)

C6_Witness ==
    /\ phase = "loading"
    /\ Settled("blood-work.json") /\ "blood-work.json" \in Failed
    /\ Settled("weight.json") /\ "weight.json" \notin Failed
    /\ ~Settled("basic-info.json")

\* C7: whenever the navigation has been built, a click or hashchange listener is
\* registered, a route has been handled or #content has been written, every fetch has
\* settled; this includes the runs where the hash changes while fetches are outstanding.
C7_NothingStartsBeforeLoad ==
    ( \/ navTree # << >>
      \/ navClickListeners > 0
      \/ hashListeners > 0
      \/ Handled
      \/ calls # << >>
      \/ content # InitialContent ) => \A f \in DataFileSet : Settled(f)

\* the hash changed during loading and its event was dispatched to no listener
C7_Witness ==
    /\ phase = "loading"
    /\ hash = << "#", "bloodwork" >>
    /\ pendingEvents = 0
    /\ ~Handled
    /\ \E f \in DataFileSet : Settled(f)

\* C8: when loadAllData itself throws or its promise rejects, the full-page error is
\* shown; and whenever the full-page error is shown, no hashchange listener is
\* registered and no renderer has been invoked.
C8_FatalPageOnLoadError ==
    /\ phase = "crashed" => content.kind = "fatal"
    /\ content.kind = "fatal" => hashListeners = 0 /\ calls = << >>

\* C9: whichever sources fail, the boot is never fatal: no fatal page, no exception out
\* of a route handler; when all fetches have settled the aggregate promise is fulfilled
\* and the navigation can be built; and once init has continued the navigation is built,
\* the router is registered and every dispatch has left a view or a placeholder.
C9_PartialFailureNotFatal ==
    /\ phase # "fatal"
    /\ content.kind # "fatal"
    /\ "throw" \notin log
    /\ (phase = "loading" /\ \A f \in DataFileSet : Settled(f)) =>
          LoadAllState(fetchState) = "fulfilled" /\ ~buildNavigation(AppData).threw
    /\ phase = "running" =>
          /\ navTree # << >>
          /\ hashListeners = 1
          /\ navClickListeners >= 1
          /\ (Handled /\ lastRoute.section \in KnownSections) =>
                content.kind \in { "view", "placeholder" }

C9_Witness ==
    /\ phase = "running"
    /\ Failed = DataFileSet
    /\ lastRoute = RouteOf(<< "archive" >>, << "R4" >>, Null)
    /\ content.kind = "view"

\* the elements marked active
ActiveEls == { a.el : a \in navActive }

\* C10: at most one element of the navigation is marked active; after a nav sync (and
\* whatever toggles were clicked since) it is the element matched for the synced route,
\* and there is none when the route matches nothing.
C10_AtMostOneActive ==
    /\ Cardinality(navActive) <= 1
    /\ trail.synced =>
          LET target == NavTarget(navTree, lastRoute)
          IN  IF target # 0 THEN ActiveEls = { target } /\ Cardinality(navActive) = 1
              ELSE navActive = { }

C10_Witness ==
    /\ trail.synced
    /\ navClickListeners = 2
    /\ Cardinality(navActive) = 1
    /\ navExpanded = { }

\* a step in which handleRoute ran: a dispatched hashchange event, or the end of boot
\* with a route in the address
RouteHandled ==
    \/ DispatchHashChange /\ hashListeners > 0
    \/ InitSettled /\ hashListeners' = 1 /\ ~(hash = << >> \/ hash = << "#" >>)

\* the report groups above element el
GroupAncestors(tree, el) ==
    { g \in Ancestors(tree, el) : tree[g].class = "nav-item--has-children" }

\* the report groups above the active elements
GroupsOfActive == UNION { GroupAncestors(navTree, a.el) : a \in navActive }

C13_SyncIdempotent ==
    [][ RouteHandled =>
          LET again == highlightActiveNav(navTree', navActive', navExpanded', hash)
          IN  /\ again.active = navActive'
              /\ again.expanded = navExpanded' ]_vars

\* a sync that started from flags left by an earlier route and by toggles
C13_Witness ==
    /\ trail.synced
    /\ trail.prevKind = "view"
    /\ Cardinality(navActive) = 1
    /\ GroupsOfActive # { }
    /\ Cardinality(navExpanded) >= 2

\* the elements that have child elements
Parents(tree) == { tree[j].parent : j \in 1..Len(tree) } \ { 0 }

\* C14: no element that has children (a report group, a subgroup) is marked active,
\* whatever the catalog loaded and whatever route was handled.
C14_GroupNeverActive ==
    \A a \in navActive :
        /\ a.el \notin Parents(navTree)
        /\ navTree[a.el].class \notin { "nav-item--has-children", "nav-subgroup" }

\* the route named a group that has children, and no element is active
C14_Witness ==
    /\ trail.synced
    /\ lastRoute = RouteOf(<< "imaging" >>, Null, Null)
    /\ BySection(navTree, << "imaging" >>) \in Parents(navTree)
    /\ navActive = { }

\* a step that changes an active or an expanded flag
FlagsChange == navActive' # navActive \/ navExpanded' # navExpanded

C16_StoreFrozenAfterLoad ==
    [][ /\ \A k \in DOMAIN AppData : k \in DOMAIN AppData' /\ AppData'[k] = AppData[k]
        /\ AppData' # AppData =>
              /\ phase = "loading" /\ phase' = "loading"
              /\ \E f \in DataFileSet : fetchState[f] = "pending" /\ fetchState'[f] # "pending"
        /\ phase \in { "running", "fatal" } => AppData' = AppData ]_vars

\* the navigation was built twice and a report was rendered from the loaded index
C16_Witness ==
    /\ phase = "running"
    /\ navClickListeners = 2
    /\ "reportsIndex" \in DOMAIN AppData
    /\ AppData["reportsIndex"] = Payload("reports-index.json")
    /\ navGrouped # << >>
    /\ content.kind = "view"
    /\ content.module = "ReportViewer"
    /\ content.detail = "report"

Parsed == lastRoute # NoRoute               \* App.parseHash() has returned

\* the positions of the separators of a path
Slashes(s) == { i \in 1..Len(s) : s[i] = "/" }

\* the position of the n-th separator; 0 before the path, Len + 1 behind it
NthSlash(s, n) ==
    IF n = 0 THEN 0
    ELSE IF n > Cardinality(Slashes(s)) THEN Len(s) + 1
    ELSE CHOOSE i \in Slashes(s) : Cardinality({ j \in Slashes(s) : j < i }) = n - 1

\* the n-th segment of a path, Null when the path has less than n segments
Segment(s, n) ==
    IF n > Cardinality(Slashes(s)) + 1 THEN Null
    ELSE SubSeq(s, NthSlash(s, n - 1) + 1, NthSlash(s, n) - 1)

\* the route of the first three segments of a path: a missing or empty segment is
\* null, or the default section when it is the first
PositionalRoute(s) ==
    LET seg(n) == IF Segment(s, n) = << >> THEN Null ELSE Segment(s, n)
    IN  [ section    |-> IF seg(1) = Null THEN << "overview" >> ELSE seg(1),
          subsection |-> seg(2),
          id         |-> seg(3) ]

\* C17 as stated: the route is that of the segments of the path behind a single
\* leading separator "#".
C17_StripsOneSeparator ==
    Parsed => lastRoute = PositionalRoute(IF Len(hash) >= 1 /\ hash[1] = "#"
                                          THEN Tail(hash) ELSE hash)

\* C17 as amended: parse strips a leading "#" together with a "/" directly behind it,
\* splits the rest on "/" and assigns the first three segments in order; a missing or
\* empty segment is null (the default section for the first), what follows the third
\* segment is ignored, and every path string yields a route.
C17_StripsMarkerAndSlash ==
    Parsed =>
        /\ lastRoute = PositionalRoute(
              IF Len(hash) >= 2 /\ hash[1] = "#" /\ hash[2] = "/" THEN Tail(Tail(hash))
              ELSE IF Len(hash) >= 1 /\ hash[1] = "#" THEN Tail(hash)
              ELSE hash)
        /\ lastRoute.subsection # Undefined
        /\ lastRoute.id # Undefined

\* the path #/a/b//b: a "/" behind the "#", an empty third segment and a fourth one
C17_Witness ==
    /\ Parsed
    /\ hash = << "#", "/", "a", "/", "b", "/", "/", "b" >>
    /\ lastRoute = RouteOf(<< "a" >>, << "b" >>, Null)

\* C18: the section of a parsed route is a non-empty string, whatever the path; the
\* empty path and the path "#" yield the route of the default section with no
\* subsection and no id.
C18_SectionNeverEmpty ==
    Parsed =>
        /\ lastRoute.section \notin { << >>, Null, Undefined }
        /\ hash \in { << >>, << "#" >> } => lastRoute = RouteOf(<< "overview" >>, Null, Null)

\* a path whose first segment is empty and whose second is not
C18_Witness ==
    /\ Parsed
    /\ hash = << "#", "/", "/", "a" >>
    /\ lastRoute = RouteOf(<< "overview" >>, << "a" >>, Null)

IndexReports ==
    IF "reportsIndex" \in DOMAIN AppData /\ ~AppData["reportsIndex"].null
    THEN AppData["reportsIndex"].reports ELSE << >>

\* the lists of the group index with their keys
GroupLists ==
    UNION { { [ category |-> navGrouped[g].key, sub |-> navGrouped[g].val[s].key,
                list |-> navGrouped[g].val[s].val ] :
              s \in 1..Len(navGrouped[g].val) } : g \in 1..Len(navGrouped) }

SubKeyOf(r) == IF r.subcategory = Null THEN << "_default" >> ELSE r.subcategory
DateKeyOf(r) == IF r.date = Null THEN << >> ELSE r.date
PlaceOf(r) == CHOOSE i \in 1..Len(IndexReports) : IndexReports[i] = r

\* C20: once groupReports has run, every report of the index is in the one list keyed
\* by its category and its subcategory (_default without one) and in no other, once;
\* in every list no report stands before a newer one, reports of the same date stand
\* in the order of the index, and the reports without a date stand last.
C20_GroupedSortedStable ==
    navClickListeners > 0 =>
        /\ \A i \in 1..Len(IndexReports) :
              LET r == IndexReports[i]
                  holding == { l \in GroupLists : \E k \in 1..Len(l.list) : l.list[k] = r }
              IN  /\ Cardinality(holding) = 1
                  /\ \A l \in holding :
                        /\ l.category = r.category
                        /\ l.sub = SubKeyOf(r)
                        /\ Cardinality({ k \in 1..Len(l.list) : l.list[k] = r }) = 1
        /\ \A l \in GroupLists :
              /\ Len(l.list) > 0
              /\ \A k \in 1..Len(l.list) : \E i \in 1..Len(IndexReports) : IndexReports[i] = l.list[k]
              /\ \A m \in GroupLists : (m.category = l.category /\ m.sub = l.sub) => m = l
              /\ \A k, n \in 1..Len(l.list) :
                    k < n =>
                       /\ ~LexLess(DateKeyOf(l.list[k]), DateKeyOf(l.list[n]))
                       /\ DateKeyOf(l.list[k]) = DateKeyOf(l.list[n]) =>
                             PlaceOf(l.list[k]) < PlaceOf(l.list[n])
                       /\ l.list[k].date = Null => l.list[n].date = Null

\* an index that starts with an undated report, then two reports of one date, all of
\* one list
C20_Witness ==
    /\ navClickListeners > 0
    /\ Len(IndexReports) = 3
    /\ IndexReports[1].date = Null
    /\ \E l \in GroupLists :
          /\ Len(l.list) = 3
          /\ l.list[1] = IndexReports[2]
          /\ l.list[2] = IndexReports[3]
          /\ l.list[1].date = l.list[2].date
          /\ l.list[3] = IndexReports[1]

\* the child elements of element el
ChildrenOf(tree, el) == { j \in 1..Len(tree) : tree[j].parent = el }

\* the place of i among the numbers of S, counted from 1
RankIn(i, S) == Cardinality({ j \in S : j <= i })

\* the list the grouper holds for a category and a subcategory key
ListOf(category, sub) == Lookup(Lookup(navGrouped, category), sub)

\* the sections of NAV_SECTIONS that are groups with declared subcategories
DeclaredGroups ==
    { k \in 1..Len(NAV_SECTIONS) :
        NAV_SECTIONS[k].type = "report-group" /\ Len(NAV_SECTIONS[k].subcategories) > 0 }

\* C21: the children of the element of a group with declared subcategories are the
\* subgroups of the declared subcategories that have a report in the index, one each,
\* in the declared order: none for a declared subcategory without reports, none for
\* anything else; the leaves of a subgroup are the reports of the grouper's list for
\* that subcategory, in the order of that list.
C21_DeclaredSubgroupsInOrder ==
    navClickListeners > 0 =>
        \A k \in DeclaredGroups :
            LET section == NAV_SECTIONS[k]
                subs == section.subcategories
                g == BySection(navTree, section.key)
                filled == { n \in 1..Len(subs) :
                              \E i \in 1..Len(IndexReports) :
                                  /\ IndexReports[i].category = section.key
                                  /\ IndexReports[i].subcategory = subs[n] }
                children == ChildrenOf(navTree, g)
            IN  /\ g # 0
                /\ Cardinality(children) = Cardinality(filled)
                /\ \A c \in children :
                      /\ navTree[c].class = "nav-subgroup"
                      /\ \E n \in filled :
                            navTree[c].sub = subs[n] /\ RankIn(c, children) = RankIn(n, filled)
                      /\ LET list == ListOf(section.key, navTree[c].sub)
                             leaves == ChildrenOf(navTree, c)
                         IN  /\ Cardinality(leaves) = Len(list)
                             /\ \A j \in leaves :
                                   /\ navTree[j].class = "nav-subitem"
                                   /\ navTree[j].reportId = list[RankIn(j, leaves)].id

\* the index names xray before ct and a subcategory that is not declared: the group
\* has two subgroups, ct first
C21_Witness ==
    /\ navClickListeners > 0
    /\ Len(IndexReports) = 3
    /\ IndexReports[1].subcategory = << "xray" >>
    /\ IndexReports[2].subcategory = << "ct" >>
    /\ IndexReports[3].subcategory = << "mri" >>
    /\ LET children == ChildrenOf(navTree, BySection(navTree, << "imaging" >>))
       IN  /\ Cardinality(children) = 2
           /\ \E c \in children : navTree[c].sub = << "ct" >> /\ RankIn(c, children) = 1

\* the sections of NAV_SECTIONS that are groups without declared subcategories
FlatGroups ==
    { k \in 1..Len(NAV_SECTIONS) :
        NAV_SECTIONS[k].type = "report-group" /\ Len(NAV_SECTIONS[k].subcategories) = 0 }

\* the report of the index with the id
ReportById(id) == IndexReports[CHOOSE i \in 1..Len(IndexReports) : IndexReports[i].id = id]

\* C22: the children of the element of a group without declared subcategories (archive)
\* are report leaves, one for every report of the index of that category whatever its
\* subcategory and no other, and no leaf stands before the leaf of a newer report.
C22_FlatListByDate ==
    navClickListeners > 0 =>
        \A k \in FlatGroups :
            LET section == NAV_SECTIONS[k]
                g == BySection(navTree, section.key)
                leaves == ChildrenOf(navTree, g)
                mine == { i \in 1..Len(IndexReports) : IndexReports[i].category = section.key }
            IN  /\ g # 0
                /\ Cardinality(leaves) = Cardinality(mine)
                /\ \A j \in leaves : navTree[j].class = "nav-subitem"
                /\ \A i \in mine :
                      Cardinality({ j \in leaves : navTree[j].reportId = IndexReports[i].id }) = 1
                /\ \A j, n \in leaves :
                      j < n => ~LexLess(DateKeyOf(ReportById(navTree[j].reportId)),
                                        DateKeyOf(ReportById(navTree[n].reportId)))

\* an older archive report without subcategory stands in the index before a newer one
\* with a subcategory: the flat list shows the newer one first
C22_Witness ==
    /\ navClickListeners > 0
    /\ Len(IndexReports) = 3
    /\ IndexReports[1].category = << "archive" >> /\ IndexReports[1].subcategory = Null
    /\ IndexReports[2].category = << "archive" >> /\ IndexReports[2].subcategory = << "ct" >>
    /\ IndexReports[3].category = << "archive" >> /\ IndexReports[3].subcategory = Null
    /\ LET leaves == ChildrenOf(navTree, BySection(navTree, << "archive" >>))
       IN  /\ Cardinality(leaves) = 3
           /\ \E j \in leaves : RankIn(j, leaves) = 1 /\ navTree[j].reportId = IndexReports[2].id

\* the renderer of a static section
StaticRenderer(section) ==
    CASE section = << "overview" >>    -> "Overview"
      [] section = << "bloodwork" >>   -> "BloodWork"
      [] section = << "bp" >>          -> "BPWeightTracker"
      [] section = << "medications" >> -> "Medication"

StaticSections == { << "overview" >>, << "bloodwork" >>, << "bp" >>, << "medications" >> }

\* C23: for a static section the latest handleRoute invoked the render of that
\* section's module, once, without a parameter, and nothing else, whatever subsection
\* and id the route carries; #content shows the view of that module.
C23_StaticSectionDispatch ==
    (Handled /\ lastRoute.section \in StaticSections) =>
        /\ calls = CallsTo(StaticRenderer(lastRoute.section), << >>)
        /\ Len(calls) = 1
        /\ content.kind = "view"
        /\ content.module = StaticRenderer(lastRoute.section)
        /\ content.arg = Null

\* a static section followed by a subsection and the id of a report
C23_Witness ==
    /\ lastRoute = RouteOf(<< "bp" >>, << "ct" >>, << "R1" >>)
    /\ calls = << Call("BPWeightTracker", << >>) >>

\* a step in which initRouter ran
RouterStarted == InitSettled /\ hashListeners' = 1

\* the address names no route
NoRouteInAddress == hash \in { << >>, << "#" >> }

\* the events queued at the end of a step that will resolve the hash the router
\* started with: every queued event but the one of a redirect
QueuedForInitial == pendingEvents' - (IF "navigateTo" \in log' /\ log' # log THEN 1 ELSE 0)

\* C24 as stated: at router start the initial route is dispatched exactly once, by the
\* direct call when a route is present and by the one queued event when none is.
C24_InitialRouteOnce ==
    [][ RouterStarted =>
          (IF NoRouteInAddress THEN 0 ELSE 1) + QueuedForInitial = 1 ]_vars

\* C24 as amended: at router start with no route the hash is set to the default
\* section, handleRoute is not called and the one event this queues dispatches the
\* route; with a route handleRoute is called once at once and the router queues no
\* event for that route; an event still queued from a change of the hash made before
\* the router started stays queued, so the route is then resolved once more; until
\* the first handleRoute has run an event is queued.
C24_RouterStartDispatch ==
    [][ /\ RouterStarted =>
              IF NoRouteInAddress
              THEN /\ hash' = << "#" >> \o DEFAULT_ROUTE
                   /\ pendingEvents' = pendingEvents + 1
                   /\ pendingEvents = 0
                   /\ lastRoute' = NoRoute /\ calls' = << >> /\ content' = InitialContent
              ELSE /\ lastRoute' = parseHash(hash)
                   /\ calls' = handleRoute(hash, navTree', { }, { }, modules, AppData,
                                           content).calls
                   /\ QueuedForInitial = pendingEvents
        /\ (phase' = "running" /\ lastRoute' = NoRoute) => pendingEvents' >= 1 ]_vars

\* the user changed the hash while the data was loading and the router started with
\* the event of that change still queued
C24_Witness ==
    /\ phase = "running"
    /\ trail.prevKind = "initial"
    /\ trail.redirect = "none"
    /\ pendingEvents = 1
    /\ hash = H("medications")
    /\ lastRoute = RouteOf(<< "medications" >>, Null, Null)

\* the first report leaf of the tree carrying the id, 0 if there is none
LeafWithId(id) ==
    First({ i \in 1..Len(navTree) : navTree[i].class = "nav-subitem" /\ navTree[i].reportId = id })

\* the first element of the tree carrying the section key, if it has no children;
\* 0 otherwise
ChildlessSectionNode(section) ==
    LET el == First({ i \in 1..Len(navTree) : navTree[i].section = section })
    IN  IF el # 0 /\ ChildrenOf(navTree, el) = { } THEN el ELSE 0

\* the active marks that make element el the one active node; none for 0
OnlyActive(el) == { ActiveMark(navTree, e) : e \in { el } \ { 0 } }

RedirectHash == << "#" >> \o DEFAULT_ROUTE

\* C26: a step that handles a route change parses the hash of that moment, syncs the
\* nav for that same hash from the flags it found and dispatches the route parsed, the
\* sync before the dispatch (a redirect requested by the dispatch changes the hash only
\* after the sync); a hashchange event delivered to the router is consumed by exactly
\* one such step; a redirect is not resolved within the step that requests it but by
\* the step of the event it queues; no other step resolves a route or consumes an event.
C26_ParseSyncDispatchPerEvent ==
    [][ /\ RouteHandled =>
              LET route == parseHash(hash)
                  sync == IF DispatchHashChange
                          THEN highlightActiveNav(navTree', navActive, navExpanded, hash)
                          ELSE highlightActiveNav(navTree', { }, { }, hash)
                  d == Dispatch(route, modules, AppData, content)
              IN  /\ lastRoute' = route
                  /\ navActive' = sync.active
                  /\ navExpanded' = sync.expanded
                  /\ calls' = d.calls
                  /\ log' = d.effects
                  /\ content' = d.content
                  /\ "navigateTo" \in d.effects =>
                        /\ hash' = RedirectHash
                        /\ lastRoute' # parseHash(RedirectHash)
                        /\ content' = content
                        /\ calls' = << >>
                  /\ "navigateTo" \notin d.effects => hash' = hash
                  /\ DispatchHashChange =>
                        pendingEvents' = pendingEvents - 1
                                         + (IF "navigateTo" \in d.effects THEN 1 ELSE 0)
        /\ pendingEvents' < pendingEvents => DispatchHashChange
        /\ (lastRoute' # lastRoute \/ calls' # calls \/ content' # content) => RouteHandled
      ]_vars

\* a route of an unknown section with the id of a report was handled: the leaf of the
\* report is active, nothing was rendered and the event of the redirect is queued
C26_Witness ==
    /\ trail.redirect = "requested"
    /\ lastRoute = RouteOf(<< "xyz" >>, << "ct" >>, << "R1" >>)
    /\ navActive = OnlyActive(LeafWithId(<< "R1" >>))
    /\ navActive # { }
    /\ hash = RedirectHash
    /\ pendingEvents >= 1

\* C27: when the route handled is the href of a report leaf of the tree, that leaf and
\* no other element is active afterwards and the dispatch invoked ReportViewer.render
\* with the report id of the leaf and nothing else, so that #content shows that report.
C27_LeafRouteShowsItsReport ==
    [][ \A el \in ReportLeaves(navTree) :
            (RouteHandled /\ hash = navTree[el].href) =>
                /\ navActive' = { [el |-> el, class |-> "nav-subitem--active"] }
                /\ calls' = << Call("ReportViewer", << navTree[el].reportId >>) >>
                /\ content' = [ kind |-> "view", module |-> "ReportViewer",
                                arg |-> navTree[el].reportId, detail |-> "report" ] ]_vars

\* the link of an archive leaf was followed from the view of an imaging report
C27_Witness ==
    /\ Len(IndexReports) = 3
    /\ trail.prevKind = "view"
    /\ lastRoute.section = << "archive" >>
    /\ calls = << Call("ReportViewer", << lastRoute.subsection >>) >>
    /\ \E a \in navActive : navTree[a.el].reportId = lastRoute.subsection
    /\ \E el \in ReportLeaves(navTree) : Len(navTree[el].href) = 6

\* C28: after a route was handled, an active report leaf means that the dispatch
\* invoked ReportViewer.render with the report id of that leaf, and an active static
\* item means that it invoked the renderer of that item's section.
C28_ActiveMatchesContent ==
    Handled =>
        \A a \in navActive :
            IF navTree[a.el].class = "nav-subitem"
            THEN calls = << Call("ReportViewer", << navTree[a.el].reportId >>) >>
            ELSE calls = << Call(StaticRenderer(navTree[a.el].section), << >>) >>

\* the report groups of the tree
GroupEls == { el \in 1..Len(navTree) : navTree[el].class = "nav-item--has-children" }

\* C29: however often buildNavigation has been called, one click of the user on the
\* toggle of a report group flips the expanded flag of that group, once: what the click
\* handlers attached to #sidebarNav leave is the set of expanded groups with that group
\* added if it was collapsed and removed if it was expanded.
C29_ToggleFlipsOnce ==
    phase = "running" =>
        \A el \in GroupEls :
            navClick(navExpanded, el, navClickListeners)
                = IF el \in navExpanded THEN navExpanded \ { el } ELSE navExpanded \cup { el }

\* the categories whose reports the router shows in the report viewer
ReportCategories == { << "imaging" >>, << "pathology" >>, << "archive" >> }

\* C30: when the route handled is the hash Timeline's buildReportHash builds for a
\* report of the index whose category is imaging, pathology or archive, the dispatch
\* invokes ReportViewer.render with the id of that report, with or without a
\* subcategory.
C30_TimelineHashShowsReport ==
    [][ \A i \in 1..Len(IndexReports) :
            ( /\ RouteHandled
              /\ IndexReports[i].category \in ReportCategories
              /\ hash = buildReportHash(AppData, IndexReports[i].id) ) =>
                calls' = << Call("ReportViewer", << IndexReports[i].id >>) >> ]_vars

====
